---- MODULE Spec2Model ----
(***************************************************************************)
(* Model of the robot telemetry function app (function_app.py) and of the  *)
(* shared Redis client module (redis_client.py).                           *)
(*                                                                         *)
(* Three Event Grid handlers (RobotStatusChangeLogger,                     *)
(* MaintenanceScheduler, RobotStateUpdater) are invoked by the host with   *)
(* an event.  The updater sets two Cosmos DB output bindings, which the    *)
(* host upserts by document id into LatestRobotStates and                  *)
(* RobotStateHistory when the handler returns.                             *)
(***************************************************************************)
EXTENDS Integers, Sequences, FiniteSets, TLC

\* ------------------------------------------------------------------ bounds
\* Number of uuid4 identifiers the updater may draw in one run of the model.
MaxUuid == 3

\* ------------------------------------------------------- program constants
\* function_app.py:85   battery_level < 20
BatteryThreshold == 20
\* redis_client.py:12   os.environ.get("REDIS_PORT", 6380)
DefaultRedisPort == 6380

\* ------------------------------------------------------------------ values
\* A Python/JSON value.  Strings are sequences of one-character strings so
\* that str.lower() and int() are computed character by character.
Missing == [kind |-> "missing", num |-> 0, str |-> <<>>]
Null == [kind |-> "null", num |-> 0, str |-> <<>>]
Num(n) == [kind |-> "num", num |-> n, str |-> <<>>]
Str(s) == [kind |-> "str", num |-> 0, str |-> s]

UpperChars == <<"A","B","C","D","E","F","G","H","I","J","K","L","M",
                "N","O","P","Q","R","S","T","U","V","W","X","Y","Z">>
LowerChars == <<"a","b","c","d","e","f","g","h","i","j","k","l","m",
                "n","o","p","q","r","s","t","u","v","w","x","y","z">>
DigitChars == <<"0","1","2","3","4","5","6","7","8","9">>

LowerChar(c) ==
    IF \E i \in 1..26 : UpperChars[i] = c
    THEN LowerChars[CHOOSE i \in 1..26 : UpperChars[i] = c]
    ELSE c

\* str.lower()
Lower(s) == [i \in 1..Len(s) |-> LowerChar(s[i])]

\* Python truthiness of a value: None, 0 and "" are falsy.
TruthyValue(v) ==
    CASE v.kind = "missing" -> FALSE
      [] v.kind = "null" -> FALSE
      [] v.kind = "num" -> v.num # 0
      [] OTHER -> Len(v.str) > 0

\* Literals of the source and of the inputs.
NA == Str(<<"N","/","A">>)
ErrorLiteral == <<"e","r","r","o","r">>

\* ------------------------------------------------------------------ events
\* The keys the handlers read from the telemetry body.
Keys == {"deviceId", "batteryLevel", "currentStatus", "ttimestamp",
         "purificationStatus", "location"}

\* A telemetry body as event_data.get('body', {}) yields it: a dict (a key
\* whose value is Missing is not in the dict), or a value that is no dict.
EmptyItems == [k \in Keys |-> Missing]
DictBody(items) == [type |-> "dict", items |-> items, scalar |-> Null]
ScalarBody(v) == [type |-> "scalar", items |-> EmptyItems, scalar |-> v]
EmptyDict == DictBody(EmptyItems)

\* Faulty variant of Truthy: the test written `robot_telemetry_body is None`.
TruthyIsNotNone(body) ==
    IF body.type = "dict" THEN TRUE ELSE body.scalar # Null

\* `not robot_telemetry_body`: an empty dict and a falsy scalar are falsy.
Truthy(body) ==
    IF body.type = "dict"
    THEN \E k \in Keys : body.items[k] # Missing
    ELSE TruthyValue(body.scalar)

\* dict.get(key) and dict.get(key, default)
Get(body, key) ==
    IF body.items[key] = Missing THEN Null ELSE body.items[key]
GetOr(body, key, default) ==
    IF body.items[key] = Missing THEN default ELSE body.items[key]

\* event.get_json() either raises json.JSONDecodeError ("undecodable"),
\* returns something that is no dict ("notmapping"), or returns a dict:
\* {"body": X} ("flat"), {"data": {"body": X}} ("nested"), or a dict with
\* neither key ("nobody").
EventOf(id, kind, shape, body) ==
    [id |-> id, kind |-> kind, shape |-> shape, body |-> body]

\* event_data.get('body', {})
GetBody(e) == IF e.shape = "flat" THEN e.body ELSE EmptyDict

S_r1 == Str(<<"r","1">>)
S_r2 == Str(<<"r","2">>)
S_e1 == Str(<<"e","1">>)
S_e2 == Str(<<"e","2">>)
S_t1 == Str(<<"t","1">>)
S_low == Str(<<"l","o","w">>)
S_OK == Str(<<"O","K">>)
S_Error == Str(<<"E","r","r","o","r">>)
S_ERROR == Str(<<"E","R","R","O","R">>)
S_error == Str(<<"e","r","r","o","r">>)

\* Bodies of single published events: every combination of a present,
\* absent, null or wrongly typed deviceId, batteryLevel and currentStatus.
EventItems ==
    [deviceId : {Missing, S_r1},
     batteryLevel : {Missing, Null, Num(BatteryThreshold - 1),
                     Num(BatteryThreshold), S_low},
     currentStatus : {Missing, Null, Num(1), S_OK, S_Error, S_ERROR, S_error},
     ttimestamp : {Missing, S_t1},
     purificationStatus : {Missing},
     location : {Missing}]

EventBodies ==
    {DictBody(i) : i \in EventItems}
        \cup {ScalarBody(Null), ScalarBody(S_low), ScalarBody(Num(0))}

Events ==
    {EventOf(S_e1, "mapping", sh, b) : sh \in {"flat", "nested"}, b \in EventBodies}
        \cup {EventOf(S_e1, "mapping", "nobody", EmptyDict),
              EventOf(S_e1, "undecodable", "nobody", EmptyDict),
              EventOf(S_e1, "notmapping", "nobody", EmptyDict)}

\* Bodies of a telemetry stream of two robots, re-delivery included.
StreamItems ==
    [deviceId : {Missing, S_r1, S_r2},
     batteryLevel : {Missing, Num(BatteryThreshold - 1)},
     currentStatus : {Missing},
     ttimestamp : {Missing},
     purificationStatus : {Missing},
     location : {Missing}]

Stream ==
    {EventOf(id, "mapping", "flat", DictBody(i)) :
        id \in {S_e1, S_e2}, i \in StreamItems}

\* ------------------------------------------------------------------- state
Handlers == {"RobotStatusChangeLogger", "MaintenanceScheduler", "RobotStateUpdater"}

VARIABLES
    event,           \* the event the host delivers to the handlers
    ret,             \* per handler: "pending", "returned" or "raised" for that event
    log,             \* per handler: the records it logged for that event
    outputDocument,  \* the LatestRobotStates output binding of the last updater run
    historyDocument, \* the RobotStateHistory output binding of the last updater run
    fault,           \* which binding's set() raised in the last updater run
    latest,          \* the documents of container LatestRobotStates
    history,         \* the documents of container RobotStateHistory
    uuidCount,       \* how many uuid4 values have been drawn
    environ,         \* the process environment redis_client.py reads
    redis_client,    \* the module global redis_client: "None" or "Redis"
    redisModule,     \* "unloaded", "loaded" or "crashed"
    pingResult,      \* "notrun", "ok" or "failed"
    redisLog         \* what redis_client.py logged

vars == <<event, ret, log, outputDocument, historyDocument, fault, latest,
          history, uuidCount, environ, redis_client, redisModule, pingResult,
          redisLog>>
handlerVars == <<event, ret, log, outputDocument, historyDocument, fault,
                 latest, history, uuidCount>>
redisVars == <<environ, redis_client, redisModule, pingResult, redisLog>>

\* -------------------------------------------------------------------- logs
LogEntry(level, tag, args, reasons) ==
    [level |-> level, tag |-> tag, args |-> args, reasons |-> reasons]

\* logger.info('Python Event Grid trigger processed ... event.')
EntryLog == <<LogEntry("info", "processed", <<>>, <<>>)>>

Returned(lg) == [ret |-> "returned", log |-> lg]

\* Faulty variant of Caught: the handler without its `except Exception` clause.
CaughtDecodeOnly(exc, lg) ==
    IF exc = "JSONDecodeError"
    THEN Returned(Append(lg, LogEntry("error", "decode", <<>>, <<>>)))
    ELSE [ret |-> "raised", log |-> lg]

\* A handler's except clauses, reached with exception `exc` after it logged
\* `lg`: json.JSONDecodeError and every other Exception are logged as an
\* error and the handler returns.
Caught(exc, lg) ==
    IF exc = "JSONDecodeError"
    THEN Returned(Append(lg, LogEntry("error", "decode", <<>>, <<>>)))
    ELSE Returned(Append(lg, LogEntry("error", "exception", <<>>, <<>>)))

\* `if not robot_telemetry_body:` taken: a warning, then return.
EmptyBodyWarning(lg) ==
    Returned(Append(lg, LogEntry("warning", "empty_body", <<>>, <<>>)))

\* What the first lines of every handler's try block do with the event:
\* "body" when a non-empty dict body was found, else the way the handler ends.
Extract(e) ==
    IF e.kind = "undecodable" THEN [to |-> "raise", exc |-> "JSONDecodeError"]
    ELSE IF e.kind = "notmapping" THEN [to |-> "raise", exc |-> "AttributeError"]
    ELSE IF ~Truthy(GetBody(e)) THEN [to |-> "empty", exc |-> ""]
    ELSE IF GetBody(e).type # "dict" THEN [to |-> "raise", exc |-> "AttributeError"]
    ELSE [to |-> "body", exc |-> ""]

\* ---------------------------------------------------- RobotStatusChangeLogger
LoggerRun(e) ==
    LET x == Extract(e)
        body == GetBody(e)
    IN  CASE x.to = "raise" -> Caught(x.exc, EntryLog)
          [] x.to = "empty" -> EmptyBodyWarning(EntryLog)
          [] OTHER ->
                Returned(Append(EntryLog,
                    LogEntry("info", "RobotTelemetryLog",
                             <<GetOr(body, "deviceId", NA),
                               GetOr(body, "ttimestamp", NA),
                               GetOr(body, "batteryLevel", NA),
                               GetOr(body, "currentStatus", NA)>>,
                             <<>>)))

\* ------------------------------------------------------- MaintenanceScheduler
\* `battery_level is not None and battery_level < 20`
BatteryRule(battery_level) ==
    CASE battery_level.kind = "null" -> "pass"
      [] battery_level.kind = "num" ->
            IF battery_level.num < BatteryThreshold THEN "fire" ELSE "pass"
      [] OTHER -> "TypeError"

\* `current_status.lower() == 'error'`
StatusRule(current_status) ==
    IF current_status.kind = "str"
    THEN IF Lower(current_status.str) = ErrorLiteral THEN "fire" ELSE "pass"
    ELSE "AttributeError"

SchedulerRun(e) ==
    LET x == Extract(e)
        body == GetBody(e)
        device_id == GetOr(body, "deviceId", NA)
        battery_level == Get(body, "batteryLevel")
        current_status == GetOr(body, "currentStatus", NA)
        ttimestamp == GetOr(body, "ttimestamp", NA)
        b == BatteryRule(battery_level)
        s == StatusRule(current_status)
        alert_reason == (IF b = "fire" THEN <<"battery">> ELSE <<>>)
                            \o (IF s = "fire" THEN <<"status">> ELSE <<>>)
        alert_triggered == b = "fire" \/ s = "fire"
    IN  CASE x.to = "raise" -> Caught(x.exc, EntryLog)
          [] x.to = "empty" -> EmptyBodyWarning(EntryLog)
          [] b = "TypeError" -> Caught("TypeError", EntryLog)
          [] s = "AttributeError" -> Caught("AttributeError", EntryLog)
          [] alert_triggered ->
                Returned(Append(EntryLog,
                    LogEntry("critical", "alert",
                             <<device_id, ttimestamp, battery_level, current_status>>,
                             alert_reason)))
          [] OTHER ->
                Returned(Append(EntryLog,
                    LogEntry("info", "no_alert",
                             <<device_id, battery_level, current_status>>, <<>>)))

\* ---------------------------------------------------------- RobotStateUpdater
Document(id, body, event_id) ==
    [id |-> id,
     deviceId |-> Get(body, "deviceId"),
     timestamp |-> Get(body, "ttimestamp"),
     batteryLevel |-> Get(body, "batteryLevel"),
     currentStatus |-> Get(body, "currentStatus"),
     purificationStatus |-> Get(body, "purificationStatus"),
     location |-> Get(body, "location"),
     eventGridEventId |-> event_id]

\* str(uuid.uuid4()): the n-th identifier drawn, never drawn before.
Uuid4(n) == Str(<<"u", "u", "i", "d", "-", DigitChars[n + 1]>>)

\* Faulty variant of LatestDocument: the event id taken as the document id.
LatestDocumentKeyedByEvent(body, event_id) ==
    Document(event_id, body, event_id)

\* robot_document_latest: "id" is the deviceId.
LatestDocument(body, event_id) ==
    Document(Get(body, "deviceId"), body, event_id)

\* Faulty variant of HistoryDocument: the history document keeps the deviceId as id.
HistoryDocumentKeyedByDevice(body, event_id, n) ==
    Document(Get(body, "deviceId"), body, event_id)

\* robot_document_history: "id" is a new uuid4.
HistoryDocument(body, event_id, n) ==
    Document(Uuid4(n), body, event_id)

\* An output binding: unset, or set to a document.
NoDocument == Document(Missing, EmptyDict, Missing)
Unset == [set |-> FALSE, doc |-> NoDocument]
SetTo(doc) == [set |-> TRUE, doc |-> doc]

\* Whether this run of the updater draws a uuid4 (line 177 is reached).
DrawsUuid(e) == Extract(e).to = "body"

\* The updater on event e, its uuid4 being the n-th, with binding `f`
\* ("latest", "history" or "none") raising in its set().
UpdaterRun(e, n, f) ==
    LET x == Extract(e)
        body == GetBody(e)
        robot_document_latest == LatestDocument(body, e.id)
        robot_document_history == HistoryDocument(body, e.id, n)
        out(r, o, h) == [ret |-> r.ret, log |-> r.log,
                         outputDocument |-> o, historyDocument |-> h]
    IN  CASE x.to = "raise" -> out(Caught(x.exc, EntryLog), Unset, Unset)
          [] x.to = "empty" -> out(EmptyBodyWarning(EntryLog), Unset, Unset)
          [] f = "latest" -> out(Caught("Exception", EntryLog), Unset, Unset)
          [] f = "history" ->
                out(Caught("Exception", EntryLog),
                    SetTo(robot_document_latest), Unset)
          [] OTHER ->
                out(Returned(EntryLog \o
                        <<LogEntry("info", "updated_latest",
                                   <<robot_document_latest.deviceId>>, <<>>),
                          LogEntry("info", "logged_history",
                                   <<robot_document_history.deviceId,
                                     robot_document_history.id>>, <<>>)>>),
                    SetTo(robot_document_latest),
                    SetTo(robot_document_history))

\* The host's write of a Cosmos DB output binding when the handler returns:
\* nothing when the binding is unset, else an upsert by document id.
Upsert(container, binding) ==
    IF binding.set
    THEN {d \in container : d.id # binding.doc.id} \cup {binding.doc}
    ELSE container

\* ----------------------------------------------------------------- actions
RobotStatusChangeLogger ==
    LET r == LoggerRun(event)
    IN  /\ ret' = [ret EXCEPT !["RobotStatusChangeLogger"] = r.ret]
        /\ log' = [log EXCEPT !["RobotStatusChangeLogger"] = r.log]
        /\ UNCHANGED <<event, outputDocument, historyDocument, fault, latest,
                       history, uuidCount>>
        /\ UNCHANGED redisVars

MaintenanceScheduler ==
    LET r == SchedulerRun(event)
    IN  /\ ret' = [ret EXCEPT !["MaintenanceScheduler"] = r.ret]
        /\ log' = [log EXCEPT !["MaintenanceScheduler"] = r.log]
        /\ UNCHANGED <<event, outputDocument, historyDocument, fault, latest,
                       history, uuidCount>>
        /\ UNCHANGED redisVars

\* One run of RobotStateUpdater and the host's write of its output bindings.
RobotStateUpdaterWith(f) ==
    /\ uuidCount < MaxUuid
    /\ LET r == UpdaterRun(event, uuidCount, f)
       IN  /\ ret' = [ret EXCEPT !["RobotStateUpdater"] = r.ret]
           /\ log' = [log EXCEPT !["RobotStateUpdater"] = r.log]
           /\ outputDocument' = r.outputDocument
           /\ historyDocument' = r.historyDocument
           /\ fault' = f
           /\ latest' = IF r.ret = "returned"
                        THEN Upsert(latest, r.outputDocument) ELSE latest
           /\ history' = IF r.ret = "returned"
                         THEN Upsert(history, r.historyDocument) ELSE history
           /\ uuidCount' = IF DrawsUuid(event) THEN uuidCount + 1 ELSE uuidCount
    /\ UNCHANGED event
    /\ UNCHANGED redisVars

RobotStateUpdater == RobotStateUpdaterWith("none")

\* The host delivers another event (or the same event again).
Publish(e) ==
    /\ event' = e
    /\ ret' = [h \in Handlers |-> "pending"]
    /\ log' = [h \in Handlers |-> <<>>]
    /\ outputDocument' = Unset
    /\ historyDocument' = Unset
    /\ fault' = "none"
    /\ UNCHANGED <<latest, history, uuidCount>>
    /\ UNCHANGED redisVars

\* ------------------------------------------------------------ redis_client.py
EnvNames == {"REDIS_HOST", "REDIS_PASSWORD", "REDIS_PORT", "REDIS_SSL"}

\* os.environ.get(name) is None for an unset variable; os.environ.get(name,
\* default) is the default then.
EnvGet(env, name) == env[name]
EnvGetOr(env, name, default) == IF env[name] = Null THEN default ELSE env[name]

DigitValue(c) == (CHOOSE i \in 1..10 : DigitChars[i] = c) - 1
IsDigit(c) == \E i \in 1..10 : DigitChars[i] = c

RECURSIVE ParseDigits(_)
ParseDigits(s) ==
    IF Len(s) = 0 THEN 0
    ELSE 10 * ParseDigits(SubSeq(s, 1, Len(s) - 1)) + DigitValue(s[Len(s)])

\* int(REDIS_PORT): a number as it is, a string of digits parsed, ValueError
\* for any other string.
IntOf(v) ==
    IF v.kind = "num" THEN [ok |-> TRUE, val |-> v.num]
    ELSE IF Len(v.str) > 0 /\ \A i \in 1..Len(v.str) : IsDigit(v.str[i])
    THEN [ok |-> TRUE, val |-> ParseDigits(v.str)]
    ELSE [ok |-> FALSE, val |-> 0]

\* REDIS_SSL = os.environ.get("REDIS_SSL", "true").lower() == "true"
RedisSsl(env) ==
    Lower(EnvGetOr(env, "REDIS_SSL", Str(<<"t","r","u","e">>)).str)
        = <<"t","r","u","e">>

NoClient == [kind |-> "None", port |-> 0, ssl |-> FALSE]
RedisClient(port, ssl) == [kind |-> "Redis", port |-> port, ssl |-> ssl]

\* The module body, lines 10-31.  `construct` and `ping` are what
\* redis.ConnectionPool(...)/redis.Redis(...) and redis_client.ping() do:
\* "ok" or "raises".
RedisModuleRun(env, construct, ping) ==
    LET REDIS_HOST == EnvGet(env, "REDIS_HOST")
        REDIS_PASSWORD == EnvGet(env, "REDIS_PASSWORD")
        REDIS_PORT == EnvGetOr(env, "REDIS_PORT", Num(DefaultRedisPort))
        port == IntOf(REDIS_PORT)
        res(c, p, l) == [redis_client |-> c, pingResult |-> p, redisLog |-> l]
    IN  IF TruthyValue(REDIS_HOST) /\ TruthyValue(REDIS_PASSWORD)
        THEN IF ~port.ok \/ construct = "raises"
             THEN res(NoClient, "notrun", <<"error">>)
             ELSE IF ping = "raises"
             THEN res(RedisClient(port.val, RedisSsl(env)), "failed", <<"error">>)
             ELSE res(RedisClient(port.val, RedisSsl(env)), "ok", <<"info">>)
        ELSE res(NoClient, "notrun", <<"warning">>)

\* The import of redis_client.py at process start.
ImportRedisClient(construct, ping) ==
    /\ redisModule = "unloaded"
    /\ LET r == RedisModuleRun(environ, construct, ping)
       IN  /\ redis_client' = r.redis_client
           /\ pingResult' = r.pingResult
           /\ redisLog' = r.redisLog
    /\ redisModule' = "loaded"
    /\ UNCHANGED environ
    /\ UNCHANGED handlerVars

\* ---------------------------------------------------------- specifications
HandlersInit(S) ==
    /\ event \in S
    /\ ret = [h \in Handlers |-> "pending"]
    /\ log = [h \in Handlers |-> <<>>]
    /\ outputDocument = Unset
    /\ historyDocument = Unset
    /\ fault = "none"
    /\ latest = {}
    /\ history = {}
    /\ uuidCount = 0

RedisInit(E) ==
    /\ environ \in E
    /\ redis_client = NoClient
    /\ redisModule = "unloaded"
    /\ pingResult = "notrun"
    /\ redisLog = <<>>

NoEnvironment == [n \in EnvNames |-> Null]

Environments ==
    [REDIS_HOST : {Null, Str(<<>>), Str(<<"h">>)},
     REDIS_PASSWORD : {Null, Str(<<>>), Str(<<"p">>)},
     REDIS_PORT : {Null, Str(<<"6","3","7","9">>), Str(<<"a","b","c">>)},
     REDIS_SSL : {Null, Str(<<"t","r","u","e">>), Str(<<"T","r","u","e">>),
                  Str(<<"f","a","l","s","e">>)}]

\* One published event, delivered at least once to each of the handlers.
Init == HandlersInit(Events) /\ RedisInit({NoEnvironment})

Next ==
    \/ RobotStatusChangeLogger
    \/ MaintenanceScheduler
    \/ RobotStateUpdater

Spec == Init /\ [][Next]_vars

\* A stream of telemetry events, each delivered to the updater any number of
\* times.
InitStream == HandlersInit(Stream) /\ RedisInit({NoEnvironment})

NextStream ==
    \/ \E e \in Stream : Publish(e)
    \/ RobotStateUpdater

SpecStream == InitStream /\ [][NextStream]_vars

\* One published event delivered to the updater, with an output binding
\* whose set() may raise.
Faults == {"none", "latest", "history"}

NextFaulty == \E f \in Faults : RobotStateUpdaterWith(f)

SpecFaulty == Init /\ [][NextFaulty]_vars

\* The start of a process that imports redis_client.py.
InitRedis ==
    /\ HandlersInit({EventOf(S_e1, "mapping", "nobody", EmptyDict)})
    /\ RedisInit(Environments)

NextRedis ==
    \E construct \in {"ok", "raises"}, ping \in {"ok", "raises"} :
        ImportRedisClient(construct, ping)

SpecRedis == InitRedis /\ [][NextRedis]_vars

\* ------------------------------------------------------------------ claims
LoggerH == "RobotStatusChangeLogger"
SchedulerH == "MaintenanceScheduler"
UpdaterH == "RobotStateUpdater"

Done(h) == ret[h] = "returned"
LastLog(h) == log[h][Len(log[h])]

\* The event carries, under a top-level "body", a dict with at least one key.
NonEmptyFlatBody(e) ==
    /\ e.kind = "mapping"
    /\ e.shape = "flat"
    /\ e.body.type = "dict"
    /\ e.body.items # EmptyItems

\* The event is a dict whose body is absent, null or the empty dict.
BodyAbsentOrEmpty(e) ==
    /\ e.kind = "mapping"
    /\ \/ e.shape = "nobody"
       \/ e.body = EmptyDict
       \/ e.body = ScalarBody(Null)

UuidIndex(id) == CHOOSE n \in 0..9 : Uuid4(n) = id

\* The history document of the most recent updater run for deviceId dev.
LastWritten(dev) ==
    CHOOSE h \in history :
        /\ h.deviceId = dev
        /\ \A g \in history :
              g.deviceId = dev => UuidIndex(g.id) <= UuidIndex(h.id)

\* C1: the latest-state container holds at most one document per deviceId,
\* and that document is, field for field, the document of the most recent
\* updater run for that deviceId (its id being the deviceId): nothing of an
\* earlier write survives, and a re-delivered event leaves one document
\* equal to the second write.
C1_LatestIsLastWrite ==
    /\ \A d1, d2 \in latest : d1.deviceId = d2.deviceId => d1 = d2
    /\ \A d \in latest : \E h \in history : h.deviceId = d.deviceId
    /\ \A dev \in {h.deviceId : h \in history} :
          dev.kind = "str" =>
             {d \in latest : d.deviceId = dev}
                = {[LastWritten(dev) EXCEPT !.id = dev]}
    /\ (Done(UpdaterH) /\ outputDocument.set) => outputDocument.doc \in latest

\* C1 witness: robot r1 was written at least twice, an earlier write carried
\* a battery level and the last one did not, and the stored document has
\* none; a second robot has its own document.
C1_Witness ==
    /\ \E d \in latest : d.deviceId = S_r1 /\ d.batteryLevel = Null
    /\ \E h \in history :
          /\ h.deviceId = S_r1
          /\ h.batteryLevel = Num(BatteryThreshold - 1)
          /\ UuidIndex(h.id) = 0
    /\ \E d \in latest : d.deviceId = S_r2
    /\ Cardinality(history) = 3

\* C2: the history container is append-only.  No step changes or removes a
\* history document; every updater run on an event with a non-empty body
\* adds exactly one document, whose id is new to the container and differs
\* from the deviceId; so the container holds one document per processed
\* event, with pairwise distinct ids.
C2_HistoryAppendOnly ==
    /\ [](/\ Cardinality(history) = uuidCount
          /\ \A h1, h2 \in history : h1.id = h2.id => h1 = h2)
    /\ [][/\ history \subseteq history'
          /\ (RobotStateUpdater /\ NonEmptyFlatBody(event)) =>
                \E d \in history' :
                   /\ history' = history \cup {d}
                   /\ d \notin history
                   /\ d.id \notin {h.id : h \in history}
                   /\ d.id # d.deviceId
                   /\ [d EXCEPT !.id = d.deviceId]
                         = LatestDocument(event.body, event.id)
                   /\ Cardinality(history') = Cardinality(history) + 1]_vars

\* C2 witness: N = 3 events processed for robot r1, two of them the same
\* event delivered twice, and three history documents.
C2_Witness ==
    /\ uuidCount = 3
    /\ \A h \in history : h.deviceId = S_r1
    /\ Cardinality(history) = 3
    /\ \E h1, h2 \in history : h1 # h2 /\ [h1 EXCEPT !.id = h2.id] = h2

\* C3: a non-empty body without deviceId makes the updater fail before any
\* write: neither output binding is set.
C3_MissingDeviceIdNoWrite ==
    (/\ Done(UpdaterH)
     /\ NonEmptyFlatBody(event)
     /\ event.body.items.deviceId = Missing)
        => /\ ~outputDocument.set
           /\ ~historyDocument.set
           /\ latest = {}
           /\ history = {}

\* C4: on an event whose body is absent or empty every handler that has run
\* returned after one warning, having logged nothing else but its entry
\* line, and nothing was written.
C4_EmptyBodyDropped ==
    BodyAbsentOrEmpty(event) =>
        /\ \A h \in Handlers :
              ret[h] # "pending" =>
                 /\ ret[h] = "returned"
                 /\ Len(log[h]) = 2
                 /\ log[h][1].tag = "processed"
                 /\ log[h][2].level = "warning"
        /\ ~outputDocument.set
        /\ ~historyDocument.set
        /\ latest = {}
        /\ history = {}

\* C4 witness: {"body": {}} was handled by all three handlers.
C4_Witness ==
    /\ event = EventOf(S_e1, "mapping", "flat", EmptyDict)
    /\ \A h \in Handlers : Done(h)

\* C5: an event {data: {body: X}} has the outcome of the event {body: X} in
\* every handler: the same log records and the same documents but for the
\* generated history id.
C5_ShapesEquivalent ==
    (event.kind = "mapping" /\ event.shape = "nested") =>
        LET flat == [event EXCEPT !.shape = "flat"]
            u == UpdaterRun(flat, 0, "none")
        IN  /\ Done(LoggerH) => log[LoggerH] = LoggerRun(flat).log
            /\ Done(SchedulerH) => log[SchedulerH] = SchedulerRun(flat).log
            /\ Done(UpdaterH) =>
                  /\ outputDocument = u.outputDocument
                  /\ historyDocument.set = u.historyDocument.set

\* C6: the scheduler's decision is that of two independent rules: battery
\* (present and below 20) and status (equal to "error" whatever the case);
\* an alert is raised iff one fires, with the battery reason first.
C6_TwoIndependentRules ==
    (Done(SchedulerH) /\ NonEmptyFlatBody(event)) =>
        LET battery == event.body.items.batteryLevel
            status == event.body.items.currentStatus
            batteryFires == battery.kind = "num" /\ battery.num < BatteryThreshold
            statusFires == status.kind = "str" /\ Lower(status.str) = ErrorLiteral
            reasons == (IF batteryFires THEN <<"battery">> ELSE <<>>)
                          \o (IF statusFires THEN <<"status">> ELSE <<>>)
        IN  IF batteryFires \/ statusFires
            THEN /\ LastLog(SchedulerH).tag = "alert"
                 /\ LastLog(SchedulerH).reasons = reasons
            ELSE LastLog(SchedulerH).tag = "no_alert"

\* C7: the status rule fires for "Error", "ERROR" and "error"; with
\* currentStatus missing or not a string it does not fire and the scheduler
\* still ends in its alert or no-alert record.
C7_AbsentStatusDoesNotFail ==
    (/\ Done(SchedulerH)
     /\ NonEmptyFlatBody(event)
     /\ event.body.items.batteryLevel.kind \in {"missing", "null", "num"})
        => LET status == event.body.items.currentStatus
               last == LastLog(SchedulerH)
           IN  /\ status \in {S_Error, S_ERROR, S_error} =>
                     /\ last.tag = "alert"
                     /\ \E i \in 1..Len(last.reasons) : last.reasons[i] = "status"
               /\ status.kind # "str" =>
                     /\ last.tag \in {"alert", "no_alert"}
                     /\ \A i \in 1..Len(last.reasons) : last.reasons[i] # "status"

C9_UnavailableUnlessPingOk ==
    redisModule # "unloaded" =>
        /\ redisModule = "loaded"
        /\ redis_client.kind = "Redis" => pingResult = "ok"
        /\ pingResult = "failed" => redis_client = NoClient

\* C10: the two writes of one event are attempted independently: when the
\* set() of one output binding raises, the other binding is still set.
C10_WritesIndependent ==
    (Done(UpdaterH) /\ NonEmptyFlatBody(event)) =>
        /\ fault = "latest" => historyDocument.set /\ history # {}
        /\ fault = "history" => outputDocument.set /\ latest # {}

====
